---- MODULE Spec2Model ----
(***************************************************************************)
(* A model of the rosetta content-structuring pipeline:                    *)
(*   - the Grouping Engine, processGroups, stepped one sequence element    *)
(*     at a time (specification Spec);                                     *)
(*   - the Sequencer, processSequence, stepped one visited node at a time  *)
(*     (specification SpecSeq);                                            *)
(*   - the Type Indexer, processByType of src/parser/types.js, stepped one *)
(*     forEach callback at a time, with a query on its result              *)
(*     (specification SpecTypes; SpecTypesP5 for the second copy of the    *)
(*     indexer);                                                           *)
(*   - the Validator, validateContent, stepped one check at a time         *)
(*     (specification SpecVal);                                            *)
(*   - the three of them from their own initial states (SpecFrame), and    *)
(*     the Sequencer on trees with nodes that lack children                *)
(*     (SpecMalformed);                                                    *)
(*   - the build command of the CLI, buildContent stepped one page at a    *)
(*     time (SpecBuild), and its watch command, the rebuilds of the        *)
(*     watcher's handlers interleaved (SpecWatch);                         *)
(*   - the page collector, processPage with buildSectionTree stepped one   *)
(*     section at a time (SpecPage).                                       *)
(*                                                                         *)
(* The grouping source holds two definitions of processGroups.  The model  *)
(* of Spec is the later one (the definitions that start at "Transform a    *)
(* sequence of elements into semantic content groups"); the earlier one    *)
(* is modelled by the operators and actions suffixed V1 (specification     *)
(* SpecV1).                                                                *)
(*                                                                         *)
(* JavaScript null is the record NULL.  A JavaScript array index p is the  *)
(* TLA+ sequence index p + 1.                                              *)
(***************************************************************************)
EXTENDS Integers, Sequences, FiniteSets, TLC

VARIABLES
    sequence,      \* processGroups: the argument
    i,             \* processGroups: the loop index (1-based)
    currentGroup,  \* processGroups: the group under construction, or NULL
    structure,     \* processGroups: { main, items }
    finalized,     \* history: the groups handed to addGroupToStructure, in order
    pc,            \* "loop" while the for loop runs, "done" once it returned
    ast,           \* processSequence: the argument
    todo,          \* visit: the nodes still to be visited, in pre-order
    position,      \* processSequence: the counter of its closure
    emitted,       \* processSequence: the local array "sequence"
    spc,           \* "visit" while the traversal runs, "done" once it returned
    typeSequence,  \* processByType: the argument
    index,         \* processByType: the index of the forEach callback (1-based)
    collections,   \* processByType: the local "collections"
    tpc,           \* "each" in the forEach, "done" once it returned, "thrown"
    queried,       \* the last query on the returned collections and its result
    vcontent,      \* validateContent: the argument "content"
    messages,      \* validateContent: the local "messages"
    vpc,           \* the check validateContent runs next, "done" or "thrown"
    options,       \* buildContent: the argument "options"
    pages,         \* buildContent: the pages found, each the sections of its files
    pageNo,        \* buildContent: the index of the loop over pages (1-based)
    hasErrors,     \* buildContent: the local set "hasErrors"
    reported,      \* history: the sections whose validation was reported
    contentJson,   \* the file content.json, NULL until it is written
    exitCode,      \* the exit of the command: "running", "ok" or "failed"
    bpc,           \* "pages" in the loop, "written", "exited"
    source,        \* watch: the state of the source directory, a version
    rebuilds,      \* watch: the buildContent calls started by the watcher
    fileInfos,     \* processPage: the local "fileInfos"
    sectionNo,     \* buildSectionTree: the index of its loop (1-based)
    sectionByPrefix, \* buildSectionTree: the local "sectionByPrefix"
    topSections,   \* buildSectionTree: the local "topSections"
    subsections,   \* buildSectionTree: the "subsections" of every section
    ppc            \* "listed", "tree" in the loop, "done" or "thrown"

groupVars == <<sequence, i, currentGroup, structure, finalized, pc>>
seqVars == <<ast, todo, position, emitted, spc>>
typeVars == <<typeSequence, index, collections, tpc, queried>>
valVars == <<vcontent, messages, vpc>>
cliVars == <<options, pages, pageNo, hasErrors, reported, contentJson,
             exitCode, bpc, source, rebuilds>>
pageVars == <<fileInfos, sectionNo, sectionByPrefix, topSections,
              subsections, ppc>>
siteVars == <<cliVars, pageVars>>
vars == <<sequence, i, currentGroup, structure, finalized, pc,
          ast, todo, position, emitted, spc,
          typeSequence, index, collections, tpc, queried,
          vcontent, messages, vpc,
          options, pages, pageNo, hasErrors, reported, contentJson,
          exitCode, bpc, source, rebuilds,
          fileInfos, sectionNo, sectionByPrefix, topSections,
          subsections, ppc>>

NULL == [type |-> "null"]

\* an exception left the function instead of a value
Thrown == [type |-> "thrown"]

\* processByType is not running
TypesIdle ==
    /\ typeSequence = <<>>
    /\ index = 1
    /\ collections = NULL
    /\ tpc = "idle"
    /\ queried = NULL

\* validateContent is not running
ValIdle ==
    /\ vcontent = NULL
    /\ messages = NULL
    /\ vpc = "idle"

\* no command of the CLI is running
CliIdle ==
    /\ options = NULL
    /\ pages = <<>>
    /\ pageNo = 1
    /\ hasErrors = {}
    /\ reported = {}
    /\ contentJson = NULL
    /\ exitCode = "idle"
    /\ bpc = "idle"
    /\ source = 0
    /\ rebuilds = <<>>

\* processPage is not running
PageIdle ==
    /\ fileInfos = <<>>
    /\ sectionNo = 1
    /\ sectionByPrefix = <<>>
    /\ topSections = <<>>
    /\ subsections = <<>>
    /\ ppc = "idle"

SiteIdle == CliIdle /\ PageIdle

----------------------------------------------------------------------------
(* Bounds of the model *)

\* longest sequence of the exhaustive inputs of processGroups
MaxLen == 4
\* deepest heading level of the exhaustive inputs
MaxLevel == 3
\* most body paragraphs of the eyebrow and feature-list inputs
MaxBody == 2
\* most level-2 items of the feature-list inputs, most sections of the
\* multi-section inputs
MaxItems == 3
\* most children of the root of a parse tree
MaxBlocks == 3

----------------------------------------------------------------------------
(* Elements and input sequences *)

\* the level of a heading whose group has none yet (metadata.level: null)
NoLevel == 0

Heading(l, p) == [type |-> "heading", level |-> l, position |-> p]
Other(t, p) == [type |-> t, level |-> NoLevel, position |-> p]

\* a kind is the type of an element and, for a heading, its level
H(l) == <<"heading", l>>
P == <<"paragraph", NoLevel>>
Img == <<"image", NoLevel>>
Div == <<"divider", NoLevel>>

Kinds == {H(l) : l \in 1..MaxLevel} \cup {P, Img, Div}

ElemOfKind(k, p) == IF k[1] = "heading" THEN Heading(k[2], p) ELSE Other(k[1], p)

\* the sequence whose element at array index p has kind kinds[p + 1]
MkSeq(kinds) == [k \in 1..Len(kinds) |-> ElemOfKind(kinds[k], k - 1)]

Repeat(s, n) == [k \in 1..(n * Len(s)) |-> s[((k - 1) % Len(s)) + 1]]

GenericKinds == UNION {[1..n -> Kinds] : n \in 0..MaxLen}

\* image, level-3 heading, level-1 heading, level-2 heading, paragraph
HeroKinds == <<Img, H(3), H(1), H(2), P>>

\* level-3, level-1, level-2 heading, then body paragraphs
EyebrowKinds == {<<H(3), H(1), H(2)>> \o Repeat(<<P>>, b) : b \in 1..MaxBody}

\* one level-1 heading, d description paragraphs, n times (level-2 heading,
\* image, paragraph)
FeatureKinds ==
    {<<H(1)>> \o Repeat(<<P>>, d) \o Repeat(<<H(2), Img, P>>, n) :
        d \in 0..MaxBody, n \in 1..MaxItems}

\* n sections, each a level-1 heading, a paragraph, a level-2 heading and a
\* paragraph
SectionKinds == {Repeat(<<H(1), P, H(2), P>>, n) : n \in 1..MaxItems}

\* a paragraph and a level-3 heading, then a level-2 heading that an image,
\* a paragraph or a divider separates from a level-1 heading
InterruptedKinds == {<<P, H(3), H(2), x, H(1)>> : x \in {Img, P, Div}}

Inputs ==
    {MkSeq(k) : k \in GenericKinds \cup {HeroKinds} \cup EyebrowKinds
                        \cup FeatureKinds \cup SectionKinds
                        \cup InterruptedKinds}

----------------------------------------------------------------------------
(* The Grouping Engine: the later definitions of the grouping source *)

\* { type : el in content }, the Set that forEach/add fills
TypesOf(content) == {content[k].type : k \in 1..Len(content)}

createNewGroup(headingElement) ==
    [headings |-> [title |-> NULL, subtitle |-> NULL, eyebrow |-> NULL],
     content |-> <<>>,
     metadata |-> [level |-> IF headingElement # NULL THEN headingElement.level
                                                      ELSE NoLevel,
                   hasMedia |-> FALSE,
                   contentTypes |-> {}]]

\* sequence.slice(position + 1).find(el => el.type === "heading"); idx is the
\* array index of the heading (the code's "position"): sequence indices above idx + 1
HeadingsAfter(seq, idx) ==
    {k \in (idx + 2)..Len(seq) : seq[k].type = "heading"}

NextHeading(seq, idx) ==
    IF HeadingsAfter(seq, idx) = {} THEN NULL
    ELSE seq[CHOOSE k \in HeadingsAfter(seq, idx) :
                \A m \in HeadingsAfter(seq, idx) : k <= m]

isEyebrowPattern(heading, seq, idx) ==
    /\ NextHeading(seq, idx) # NULL
    /\ NextHeading(seq, idx).level < heading.level

shouldStartNewGroup(heading, group, seq, idx) ==
    IF group = NULL THEN TRUE
    ELSE IF Len(group.content) = 0 /\ group.headings.title = NULL THEN TRUE
    ELSE IF isEyebrowPattern(heading, seq, idx) THEN FALSE
    ELSE IF group.metadata.level # NoLevel
         THEN Len(group.content) > 0 /\ heading.level <= group.metadata.level
    ELSE TRUE

addHeadingToGroup(group, heading) ==
    IF group.headings.title = NULL
    THEN [group EXCEPT !.headings.title = heading,
                       !.metadata.level = heading.level]
    ELSE IF heading.level < group.headings.title.level
    THEN [group EXCEPT !.headings.subtitle = group.headings.title,
                       !.headings.title = heading,
                       !.metadata.level = heading.level]
    ELSE IF heading.level > group.headings.title.level
    THEN IF Len(group.content) = 0 /\ group.headings.subtitle = NULL
         THEN [group EXCEPT !.headings.eyebrow = group.headings.title,
                            !.headings.title = heading,
                            !.metadata.level = heading.level]
         ELSE [group EXCEPT !.headings.subtitle = heading]
    ELSE group

\* isMainGroup without the title test of its second criterion
isMainGroupAnyContent(group) ==
    \/ group.headings.title # NULL /\ group.headings.title.level = 1
    \/ Len(group.content) > 0

isMainGroup(group) ==
    \/ group.headings.title # NULL /\ group.headings.title.level = 1
    \/ group.headings.title # NULL /\ Len(group.content) > 0

\* the metadata update without the forEach that adds the content's types
WithMetadataNoTypes(group) ==
    [group EXCEPT !.metadata.hasMedia =
                      \E k \in 1..Len(group.content) : group.content[k].type = "image"]

\* the group as addGroupToStructure leaves it: its metadata filled in
WithMetadata(group) ==
    [group EXCEPT !.metadata.hasMedia =
                      \E k \in 1..Len(group.content) : group.content[k].type = "image",
                  !.metadata.contentTypes =
                      group.metadata.contentTypes \cup TypesOf(group.content)]

\* addGroupToStructure without the "!structure.main" test: a later
\* qualifying group replaces main
addGroupToStructureReplacing(group, struct) ==
    IF isMainGroup(group)
    THEN [struct EXCEPT !.main = WithMetadata(group)]
    ELSE [struct EXCEPT !.items = Append(struct.items, WithMetadata(group))]

\* addGroupToStructure with items.unshift in place of items.push
addGroupToStructureUnshift(group, struct) ==
    IF struct.main = NULL /\ isMainGroup(group)
    THEN [struct EXCEPT !.main = WithMetadata(group)]
    ELSE [struct EXCEPT !.items = <<WithMetadata(group)>> \o struct.items]

addGroupToStructure(group, struct) ==
    IF struct.main = NULL /\ isMainGroup(group)
    THEN [struct EXCEPT !.main = WithMetadata(group)]
    ELSE [struct EXCEPT !.items = Append(struct.items, WithMetadata(group))]

\* "if (currentGroup) addGroupToStructure(currentGroup, structure)"
CloseCurrent(group, struct) ==
    IF group # NULL THEN addGroupToStructure(group, struct) ELSE struct

\* the history of the same call
Closed(group, hist) ==
    IF group # NULL THEN Append(hist, WithMetadata(group)) ELSE hist

InLoop == pc = "loop" /\ i <= Len(sequence)

\* the divider branch without "currentGroup = createNewGroup()": the group
\* is added to the structure and goes on collecting
DividerKeepsGroup ==
    /\ InLoop
    /\ sequence[i].type = "divider"
    /\ structure' = CloseCurrent(currentGroup, structure)
    /\ finalized' = Closed(currentGroup, finalized)
    /\ i' = i + 1
    /\ UNCHANGED <<sequence, currentGroup, pc>>

\* the divider branch of the loop body
Divider ==
    /\ InLoop
    /\ sequence[i].type = "divider"
    /\ structure' = CloseCurrent(currentGroup, structure)
    /\ finalized' = Closed(currentGroup, finalized)
    /\ currentGroup' = createNewGroup(NULL)
    /\ i' = i + 1
    /\ UNCHANGED <<sequence, pc>>

\* the heading branch, shouldStartNewGroup true
HeadingStartsGroup ==
    /\ InLoop
    /\ sequence[i].type = "heading"
    /\ shouldStartNewGroup(sequence[i], currentGroup, sequence, i - 1)
    /\ structure' = CloseCurrent(currentGroup, structure)
    /\ finalized' = Closed(currentGroup, finalized)
    /\ currentGroup' = createNewGroup(sequence[i])
    /\ i' = i + 1
    /\ UNCHANGED <<sequence, pc>>

\* the heading branch, shouldStartNewGroup false
HeadingJoinsGroup ==
    /\ InLoop
    /\ sequence[i].type = "heading"
    /\ ~shouldStartNewGroup(sequence[i], currentGroup, sequence, i - 1)
    /\ currentGroup' = addHeadingToGroup(currentGroup, sequence[i])
    /\ i' = i + 1
    /\ UNCHANGED <<sequence, structure, finalized, pc>>

\* any other element: pushed on the content of the current group
Content ==
    /\ InLoop
    /\ sequence[i].type \notin {"divider", "heading"}
    /\ LET group == IF currentGroup = NULL THEN createNewGroup(NULL) ELSE currentGroup
       IN currentGroup' = [group EXCEPT !.content = Append(group.content, sequence[i])]
    /\ i' = i + 1
    /\ UNCHANGED <<sequence, structure, finalized, pc>>

\* the end of the loop: the final group is added and the structure returned
Finish ==
    /\ pc = "loop"
    /\ i > Len(sequence)
    /\ structure' = CloseCurrent(currentGroup, structure)
    /\ finalized' = Closed(currentGroup, finalized)
    /\ pc' = "done"
    /\ UNCHANGED <<sequence, i, currentGroup>>

SeqIdle ==
    /\ ast = NULL
    /\ todo = <<>>
    /\ position = 0
    /\ emitted = <<>>
    /\ spc = "idle"

GroupStart ==
    /\ i = 1
    /\ currentGroup = NULL
    /\ structure = [main |-> NULL, items |-> <<>>]
    /\ finalized = <<>>
    /\ pc = "loop"

Init ==
    /\ sequence \in Inputs
    /\ GroupStart
    /\ SiteIdle
    /\ SeqIdle
    /\ TypesIdle
    /\ ValIdle

Next ==
    \/ Divider /\ UNCHANGED <<seqVars, typeVars, valVars, siteVars>>
    \/ HeadingStartsGroup /\ UNCHANGED <<seqVars, typeVars, valVars, siteVars>>
    \/ HeadingJoinsGroup /\ UNCHANGED <<seqVars, typeVars, valVars, siteVars>>
    \/ Content /\ UNCHANGED <<seqVars, typeVars, valVars, siteVars>>
    \/ Finish /\ UNCHANGED <<seqVars, typeVars, valVars, siteVars>>

Spec == Init /\ [][Next]_vars

----------------------------------------------------------------------------
(* The Grouping Engine: the earlier definitions of the grouping source *)

createNewGroupV1 ==
    [headings |-> [eyebrow |-> NULL, title |-> NULL, subtitle |-> NULL],
     content |-> <<>>,
     metadata |-> [level |-> NoLevel, contentTypes |-> {}]]

\* "heading.level <= (currentGroup.metadata.level || Infinity)"
AtMostLevel(level, groupLevel) == groupLevel = NoLevel \/ level <= groupLevel

shouldStartNewGroupV1(heading, group, seq, idx) ==
    IF group = NULL THEN TRUE
    ELSE IF Len(group.content) = 0 /\ group.headings.title = NULL THEN FALSE
    ELSE IF heading.level = 1 /\ group.headings.title # NULL THEN TRUE
    ELSE IF /\ heading.level = 3
            /\ NextHeading(seq, idx) # NULL
            /\ NextHeading(seq, idx).level < heading.level
         THEN FALSE
    ELSE IF /\ group.headings.title # NULL
            /\ heading.level = group.headings.title.level
            /\ (Len(group.content) > 0 \/ group.headings.subtitle # NULL)
         THEN TRUE
    ELSE AtMostLevel(heading.level, group.metadata.level)

addHeadingToGroupV1(group, heading) ==
    IF group.headings.title = NULL
    THEN IF heading.level = 3 /\ group.headings.eyebrow = NULL
         THEN [group EXCEPT !.headings.eyebrow = heading,
                            !.metadata.level = heading.level]
         ELSE [group EXCEPT !.headings.title = heading,
                            !.metadata.level = heading.level]
    ELSE IF group.headings.subtitle = NULL /\ heading.level > group.headings.title.level
    THEN [group EXCEPT !.headings.subtitle = heading]
    ELSE [group EXCEPT !.content = Append(group.content, heading)]

isMainGroupV1(group) ==
    \/ group.headings.title # NULL /\ group.headings.title.level = 1
    \/ group.headings.eyebrow # NULL /\ group.headings.eyebrow.level = 3

addGroupToStructureV1(group, struct) ==
    IF struct.main = NULL /\ (isMainGroupV1(group) \/ Len(struct.items) = 0)
    THEN [struct EXCEPT !.main = group]
    ELSE [struct EXCEPT !.items = Append(struct.items, group)]

CloseCurrentV1(group, struct) ==
    IF group # NULL THEN addGroupToStructureV1(group, struct) ELSE struct

ClosedV1(group, hist) == IF group # NULL THEN Append(hist, group) ELSE hist

\* "Second pass: determine roles if not already set"
SecondPassV1(struct) ==
    IF /\ struct.main = NULL
       /\ Len(struct.items) > 0
       /\ struct.items[1].headings.title # NULL
       /\ struct.items[1].headings.title.level = 1
    THEN [main |-> struct.items[1], items |-> Tail(struct.items)]
    ELSE struct

DividerV1 ==
    /\ InLoop
    /\ sequence[i].type = "divider"
    /\ structure' = CloseCurrentV1(currentGroup, structure)
    /\ finalized' = ClosedV1(currentGroup, finalized)
    /\ currentGroup' = createNewGroupV1
    /\ i' = i + 1
    /\ UNCHANGED <<sequence, pc>>

\* a heading that starts a group is then added to the group it started
HeadingStartsGroupV1 ==
    /\ InLoop
    /\ sequence[i].type = "heading"
    /\ shouldStartNewGroupV1(sequence[i], currentGroup, sequence, i - 1)
    /\ structure' = CloseCurrentV1(currentGroup, structure)
    /\ finalized' = ClosedV1(currentGroup, finalized)
    /\ currentGroup' = addHeadingToGroupV1(createNewGroupV1, sequence[i])
    /\ i' = i + 1
    /\ UNCHANGED <<sequence, pc>>

HeadingJoinsGroupV1 ==
    /\ InLoop
    /\ sequence[i].type = "heading"
    /\ ~shouldStartNewGroupV1(sequence[i], currentGroup, sequence, i - 1)
    /\ currentGroup' = addHeadingToGroupV1(currentGroup, sequence[i])
    /\ i' = i + 1
    /\ UNCHANGED <<sequence, structure, finalized, pc>>

ContentV1 ==
    /\ InLoop
    /\ sequence[i].type \notin {"divider", "heading"}
    /\ LET group == IF currentGroup = NULL THEN createNewGroupV1 ELSE currentGroup
       IN currentGroup' = [group EXCEPT !.content = Append(group.content, sequence[i])]
    /\ i' = i + 1
    /\ UNCHANGED <<sequence, structure, finalized, pc>>

\* the final group is added, then the second pass runs and the structure is
\* returned
FinishV1 ==
    /\ pc = "loop"
    /\ i > Len(sequence)
    /\ structure' = SecondPassV1(CloseCurrentV1(currentGroup, structure))
    /\ finalized' = ClosedV1(currentGroup, finalized)
    /\ pc' = "done"
    /\ UNCHANGED <<sequence, i, currentGroup>>

NextV1 ==
    \/ DividerV1 /\ UNCHANGED <<seqVars, typeVars, valVars, siteVars>>
    \/ HeadingStartsGroupV1 /\ UNCHANGED <<seqVars, typeVars, valVars, siteVars>>
    \/ HeadingJoinsGroupV1 /\ UNCHANGED <<seqVars, typeVars, valVars, siteVars>>
    \/ ContentV1 /\ UNCHANGED <<seqVars, typeVars, valVars, siteVars>>
    \/ FinishV1 /\ UNCHANGED <<seqVars, typeVars, valVars, siteVars>>

SpecV1 == Init /\ [][NextV1]_vars

----------------------------------------------------------------------------
(* Parse trees.  A text is a sequence of tokens (words and label blocks); the
   empty sequence is the empty string.  A node without a children list has
   none to visit, like one with an empty list.  An absent title or lang is
   the empty string, which "|| null" turns into the same null. *)

\* hasChildren: the node has a children array (children holds it)
Node(t, kids) ==
    [type |-> t, depth |-> 0, value |-> <<>>, alt |-> <<>>, url |-> "",
     title |-> "", ordered |-> FALSE, lang |-> "", hasChildren |-> TRUE,
     children |-> kids]

\* a node of a malformed tree: node.children is undefined
Childless(t) == [Node(t, <<>>) EXCEPT !.hasChildren = FALSE]

Text(tokens) == [Node("text", <<>>) EXCEPT !.value = tokens]
Image(a, u) == [Node("image", <<>>) EXCEPT !.alt = a, !.url = u]
HeadingNode(d, kids) == [Node("heading", kids) EXCEPT !.depth = d]

\* the children the root can have: the blocks of a document
Blocks ==
    {HeadingNode(1, <<Text(<<"Title">>)>>),
     HeadingNode(2, <<Text(<<"Feature", "{.highlight}">>)>>),
     HeadingNode(3, <<Text(<<"Feature", "{.a .b}">>)>>),
     Node("paragraph", <<Text(<<"Body">>)>>),
     Node("paragraph", <<Image(<<>>, "bg.jpg")>>),
     Node("paragraph", <<Image(<<"icon:", "pen">>, "pen.svg")>>),
     Node("paragraph", <<Text(<<"See">>), Image(<<"chart">>, "chart.png")>>),
     Node("paragraph", <<Node("emphasis", <<Text(<<"Note">>)>>)>>),
     Node("thematicBreak", <<>>),
     Node("list", <<Node("listItem", <<Node("paragraph", <<Text(<<"One">>)>>)>>)>>),
     [Node("code", <<>>) EXCEPT !.value = <<"x = 1">>, !.lang = "js"],
     Node("blockquote", <<Node("paragraph", <<Text(<<"Quote">>)>>)>>)}

Trees == {Node("root", kids) : kids \in UNION {[1..n -> Blocks] : n \in 0..MaxBlocks}}

----------------------------------------------------------------------------
(* The Sequencer: the later definitions of the sequence source *)

RECURSIVE Concat(_)
Concat(texts) == IF texts = <<>> THEN <<>> ELSE Head(texts) \o Concat(Tail(texts))

RECURSIVE getTextContent(_)
getTextContent(node) ==
    IF node.value # <<>> THEN node.value
    ELSE IF node.hasChildren
    THEN Concat([k \in 1..Len(node.children) |-> getTextContent(node.children[k])])
    ELSE <<>>

\* the tokens that /{(\.[\w-]+(?:\s+\.[\w-]+)*)}\s*$/ matches, with the
\* identifiers of each
LabelsOf(token) ==
    IF token = "{.highlight}" THEN <<"highlight">>
    ELSE IF token = "{.a .b}" THEN <<"a", "b">>
    ELSE <<>>

\* the tokens that /\s*{\.[\w-]+}\s*$/ matches: a block of one label
IsOneLabelBlock(token) == Len(LabelsOf(token)) = 1

extractLabels(node) ==
    LET text == getTextContent(node)
    IN IF text = <<>> THEN <<>> ELSE LabelsOf(text[Len(text)])

\* getTextContent(node).replace(/\s*{\.[\w-]+}\s*$/, "")
StripLabel(text) ==
    IF text # <<>> /\ IsOneLabelBlock(text[Len(text)])
    THEN SubSeq(text, 1, Len(text) - 1)
    ELSE text

RolePrefixes == {"background:", "icon:", "gallery:"}

RoleOfPrefix(token) ==
    IF token = "background:" THEN "background"
    ELSE IF token = "icon:" THEN "icon"
    ELSE "gallery"

\* alt.match(/^(background|icon|gallery):\s*(.*)/)
RoleMatch(alt) == alt # <<>> /\ alt[1] \in RolePrefixes

processImageNode(node, pos) ==
    [type |-> "image",
     role |-> IF RoleMatch(node.alt) THEN RoleOfPrefix(node.alt[1])
              ELSE IF pos = 0 THEN "background"
              ELSE "content",
     src |-> node.url,
     alt |-> IF RoleMatch(node.alt) THEN Tail(node.alt) ELSE node.alt,
     title |-> node.title,
     position |-> pos]

processNode(node, pos) ==
    CASE node.type = "heading" ->
            [type |-> "heading", level |-> node.depth,
             content |-> IF node.hasChildren THEN StripLabel(getTextContent(node))
                         ELSE <<>>,
             position |-> pos, labels |-> extractLabels(node)]
      [] node.type = "paragraph" ->
            IF /\ node.hasChildren
               /\ Len(node.children) = 1
               /\ node.children[1].type = "image"
            THEN processImageNode(node.children[1], pos)
            ELSE [type |-> "paragraph", content |-> getTextContent(node),
                  position |-> pos]
      [] node.type = "image" -> processImageNode(node, pos)
      [] node.type = "thematicBreak" -> [type |-> "divider", position |-> pos]
      [] node.type = "list" ->
            IF node.hasChildren
            THEN [type |-> "list", ordered |-> node.ordered,
                  items |-> [k \in 1..Len(node.children) |->
                                getTextContent(node.children[k])],
                  position |-> pos]
            ELSE Thrown
      [] node.type = "code" ->
            [type |-> "code", language |-> node.lang, content |-> node.value,
             position |-> pos]
      [] OTHER -> NULL

\* one call of the callback of visit on the next node in pre-order: the node
\* is processed with position++, its element (if any) is pushed, and its
\* children (if it has any) are visited next; an exception of processNode
\* leaves processSequence
Visit ==
    /\ spc = "visit"
    /\ todo # <<>>
    /\ LET node == Head(todo)
           element == processNode(node, position)
       IN IF element = Thrown
          THEN /\ spc' = "thrown"
               /\ UNCHANGED <<emitted, todo>>
          ELSE /\ emitted' = IF element # NULL THEN Append(emitted, element)
                                               ELSE emitted
               /\ todo' = (IF node.hasChildren THEN node.children ELSE <<>>)
                               \o Tail(todo)
               /\ UNCHANGED spc
    /\ position' = position + 1
    /\ UNCHANGED ast

\* visit has returned: processSequence returns the sequence
Return ==
    /\ spc = "visit"
    /\ todo = <<>>
    /\ spc' = "done"
    /\ UNCHANGED <<ast, todo, position, emitted>>

GroupIdle ==
    /\ sequence = <<>>
    /\ i = 1
    /\ currentGroup = NULL
    /\ structure = [main |-> NULL, items |-> <<>>]
    /\ finalized = <<>>
    /\ pc = "idle"

InitSeq ==
    /\ ast \in Trees
    /\ todo = <<ast>>
    /\ position = 0
    /\ emitted = <<>>
    /\ spc = "visit"
    /\ GroupIdle
    /\ SiteIdle
    /\ TypesIdle
    /\ ValIdle

NextSeq ==
    \/ Visit /\ UNCHANGED <<groupVars, typeVars, valVars, siteVars>>
    \/ Return /\ UNCHANGED <<groupVars, typeVars, valVars, siteVars>>

SpecSeq == InitSeq /\ [][NextSeq]_vars

\* the blocks of a malformed tree: a heading, a paragraph and a list whose
\* children array is missing
ChildlessBlocks ==
    {[Childless("heading") EXCEPT !.depth = 2], Childless("paragraph"),
     Childless("list")}

\* the trees of at most n blocks that hold a block without children
MalformedTrees(n) ==
    {Node("root", kids) :
        kids \in {b \in UNION {[1..m -> Blocks \cup ChildlessBlocks] : m \in 1..n} :
                     \E k \in 1..Len(b) : ~b[k].hasChildren}}

InitMalformed ==
    /\ ast \in MalformedTrees(MaxBlocks)
    /\ todo = <<ast>>
    /\ position = 0
    /\ emitted = <<>>
    /\ spc = "visit"
    /\ GroupIdle
    /\ SiteIdle
    /\ TypesIdle
    /\ ValIdle

\* processSequence on a malformed tree
SpecMalformed == InitMalformed /\ [][NextSeq]_vars

----------------------------------------------------------------------------
(* The returned Structure, read as the claims read it *)

\* main (when there is one) followed by the items
Groups(struct) ==
    (IF struct.main # NULL THEN <<struct.main>> ELSE <<>>) \o struct.items

IsElement(x) == x # NULL

\* the filled heading slots of a group, then its content
Slots(g) ==
    SelectSeq(<<g.headings.eyebrow, g.headings.title, g.headings.subtitle>>, IsElement)

Placed(g) == Slots(g) \o g.content

\* the places (group, index) that hold element e
Occurrences(struct, e) ==
    {<<a, k>> \in (1..Len(Groups(struct))) \X (1..(Len(sequence) + 3)) :
        k <= Len(Placed(Groups(struct)[a])) /\ Placed(Groups(struct)[a])[k] = e}

RECURSIVE SumOver(_, _)
SumOver(f, n) == IF n = 0 THEN 0 ELSE f[n] + SumOver(f, n - 1)

ContentTotal(struct) ==
    SumOver([a \in 1..Len(Groups(struct)) |-> Len(Groups(struct)[a].content)],
            Len(Groups(struct)))

SlotTotal(struct) ==
    SumOver([a \in 1..Len(Groups(struct)) |-> Len(Slots(Groups(struct)[a]))],
            Len(Groups(struct)))

DividerCount(seq) == Cardinality({k \in 1..Len(seq) : seq[k].type = "divider"})

NoSlotFilled(g) ==
    g.headings.eyebrow = NULL /\ g.headings.title = NULL /\ g.headings.subtitle = NULL

IsEmptyGroup(g) == NoSlotFilled(g) /\ g.content = <<>>

Positions(g) == {Placed(g)[k].position : k \in 1..Len(Placed(g))}

\* every element of g comes before every element of h in the sequence
Precedes(g, h) == \A x \in Positions(g), y \in Positions(h) : x < y

Done == pc = "done"

----------------------------------------------------------------------------
(* Claims about processGroups *)

\* C1: the returned Structure holds each non-divider element of the sequence
\* exactly once (in a heading slot or in one content list), so content lengths
\* plus filled heading slots plus dividers add up to the sequence length
C1_EveryElementOnce ==
    Done =>
        /\ \A k \in 1..Len(sequence) :
              sequence[k].type # "divider" =>
                  Cardinality(Occurrences(structure, sequence[k])) = 1
        /\ ContentTotal(structure) + SlotTotal(structure) + DividerCount(sequence)
              = Len(sequence)

\* C2: image, h3, h1, h2, paragraph gives main with eyebrow = the h3,
\* title = the h1, subtitle = the h2 and content = [paragraph]
C2_HeroHeadings ==
    (Done /\ sequence = MkSeq(HeroKinds)) =>
        /\ structure.main # NULL
        /\ structure.main.headings.eyebrow = sequence[2]
        /\ structure.main.headings.title = sequence[3]
        /\ structure.main.headings.subtitle = sequence[4]
        /\ structure.main.content = <<sequence[5]>>

\* C3: h3, h1, h2, then paragraphs gives main with eyebrow = the h3,
\* title = the h1, subtitle = the h2 and the paragraphs as content
C3_EyebrowTitleSubtitle ==
    (Done /\ \E k \in EyebrowKinds : sequence = MkSeq(k)) =>
        /\ structure.main # NULL
        /\ structure.main.headings.eyebrow = sequence[1]
        /\ structure.main.headings.title = sequence[2]
        /\ structure.main.headings.subtitle = sequence[3]
        /\ structure.main.content = SubSeq(sequence, 4, Len(sequence))

\* C4: h1, d paragraphs, then n times (h2, image, paragraph) gives main with
\* only the h1 as title and n items in order, the a-th holding the a-th h2 as
\* title and that heading's image and paragraph as content
C4_FeatureList ==
    \A d \in 0..MaxBody, n \in 1..MaxItems :
        (Done /\ sequence = MkSeq(<<H(1)>> \o Repeat(<<P>>, d)
                                    \o Repeat(<<H(2), Img, P>>, n))) =>
            /\ structure.main # NULL
            /\ structure.main.headings.title = sequence[1]
            /\ structure.main.headings.eyebrow = NULL
            /\ structure.main.headings.subtitle = NULL
            /\ Len(structure.items) = n
            /\ \A a \in 1..n :
                  /\ a <= Len(structure.items)
                  /\ structure.items[a].headings.title = sequence[d + 3 * a - 1]
                  /\ structure.items[a].content =
                        <<sequence[d + 3 * a], sequence[d + 3 * a + 1]>>

NoHeadingNoDivider(seq) ==
    \A k \in 1..Len(seq) : seq[k].type \notin {"heading", "divider"}

Qualifies(g) ==
    /\ g.headings.title # NULL
    /\ g.headings.title.level = 1 \/ Len(g.content) > 0

Qualifying(hist) == {k \in 1..Len(hist) : Qualifies(hist[k])}

First(S) == CHOOSE k \in S : \A m \in S : k <= m

Without(s, k) == SubSeq(s, 1, k - 1) \o SubSeq(s, k + 1, Len(s))

C7_GroupsAreRuns ==
    Done =>
        /\ \A a, b \in 1..Len(Groups(structure)) :
              a # b => \/ Precedes(Groups(structure)[a], Groups(structure)[b])
                       \/ Precedes(Groups(structure)[b], Groups(structure)[a])
        /\ \A a, b \in 1..Len(structure.items) :
              a < b => Precedes(structure.items[a], structure.items[b])

C7_Witness ==
    /\ Done
    /\ structure.main # NULL
    /\ Len(structure.items) >= 2
    /\ \A a \in 1..Len(structure.items) : Positions(structure.items[a]) # {}

DividerAt(seq, k) == k \in 1..Len(seq) /\ seq[k].type = "divider"

\* the dividers that directly follow a divider
DoubledDividers(seq) == {k \in 2..Len(seq) : DividerAt(seq, k) /\ DividerAt(seq, k - 1)}

\* no divider lies between two elements of g
NotAcrossDivider(g, seq) ==
    \A x \in Positions(g), y \in Positions(g), k \in 1..Len(seq) :
        DividerAt(seq, k) => ~(x < seq[k].position /\ seq[k].position < y)

----------------------------------------------------------------------------
(* Claims about processSequence *)

SeqDone == spc = "done"

\* C9: the element at array index a of the returned sequence has position a:
\* nodes that emit nothing do not advance the numbering
C9_PositionIsIndex ==
    SeqDone => \A k \in 1..Len(emitted) : emitted[k].position = k - 1

IsImageParagraph(node) ==
    /\ node.type = "paragraph"
    /\ Len(node.children) = 1
    /\ node.children[1].type = "image"

RECURSIVE SumSeq(_)
SumSeq(ns) == IF ns = <<>> THEN 0 ELSE Head(ns) + SumSeq(Tail(ns))

\* the image nodes of a tree
RECURSIVE ImageNodes(_)
ImageNodes(node) ==
    (IF node.type = "image" THEN 1 ELSE 0)
        + SumSeq([k \in 1..Len(node.children) |-> ImageNodes(node.children[k])])

\* the paragraph nodes of a tree that are not a paragraph around one image
RECURSIVE TextParagraphs(_)
TextParagraphs(node) ==
    (IF node.type = "paragraph" /\ ~IsImageParagraph(node) THEN 1 ELSE 0)
        + SumSeq([k \in 1..Len(node.children) |-> TextParagraphs(node.children[k])])

CountOfType(seq, t) == Cardinality({k \in 1..Len(seq) : seq[k].type = t})

\* C10: a paragraph around a single image gives one image element and nothing
\* else: the sequence holds one image element per image node of the tree and
\* one paragraph element per paragraph that is not such a wrapper
C10_ImageParagraphOnce ==
    SeqDone =>
        /\ CountOfType(emitted, "image") = ImageNodes(ast)
        /\ CountOfType(emitted, "paragraph") = TextParagraphs(ast)

\* the nodes of a tree in the order visit calls the callback on them
RECURSIVE PreOrder(_)
PreOrder(node) ==
    <<node>> \o Concat([k \in 1..Len(node.children) |-> PreOrder(node.children[k])])

\* the node processNode was called on with this position
NodeAt(pos) == PreOrder(ast)[pos + 1]

\* the image node an image element was made from: the node itself, or the
\* only child of the paragraph around it
ImageNodeOf(e) ==
    IF NodeAt(e.position).type = "image" THEN NodeAt(e.position)
    ELSE NodeAt(e.position).children[1]

ImageIndexes(seq) == {k \in 1..Len(seq) : seq[k].type = "image"}

HasRolePrefix(alt) == alt # <<>> /\ alt[1] \in {"background:", "icon:", "gallery:"}

PrefixRole(alt) ==
    CASE alt[1] = "background:" -> "background"
      [] alt[1] = "icon:" -> "icon"
      [] alt[1] = "gallery:" -> "gallery"

\* C11: an image whose alt has a role prefix gets that role; one without gets
\* background when it is the first image of the sequence and content otherwise
C11_ImageRoles ==
    SeqDone =>
        \A k \in ImageIndexes(emitted) :
            emitted[k].role =
                IF HasRolePrefix(ImageNodeOf(emitted[k]).alt)
                THEN PrefixRole(ImageNodeOf(emitted[k]).alt)
                ELSE IF \A m \in ImageIndexes(emitted) : k <= m THEN "background"
                ELSE "content"

\* the label blocks a text can end with, and the identifiers each lists
BlockLabels(token) ==
    CASE token = "{.highlight}" -> <<"highlight">>
      [] token = "{.a .b}" -> <<"a", "b">>
      [] OTHER -> <<>>

\* the text of a node: the values of its text descendants, in order
RECURSIVE RawText(_)
RawText(node) ==
    IF node.type = "text" THEN node.value
    ELSE Concat([k \in 1..Len(node.children) |-> RawText(node.children[k])])

EndsWithLabelBlock(text) == text # <<>> /\ BlockLabels(text[Len(text)]) # <<>>

\* C12: a heading whose text ends with a label block gets the listed
\* identifiers as labels and the text without the block as content; any other
\* heading gets no labels and its text unchanged
C12_HeadingLabels ==
    SeqDone =>
        \A k \in 1..Len(emitted) :
            emitted[k].type = "heading" =>
                LET text == RawText(NodeAt(emitted[k].position))
                IN IF EndsWithLabelBlock(text)
                   THEN /\ emitted[k].labels = BlockLabels(text[Len(text)])
                        /\ emitted[k].content = SubSeq(text, 1, Len(text) - 1)
                   ELSE /\ emitted[k].labels = <<>>
                        /\ emitted[k].content = text

----------------------------------------------------------------------------
(* The Type Indexer: processByType of src/parser/types.js, one forEach     *)
(* callback at a time, and the queries on the collections it returns       *)

\* longest sequence of the inputs of processByType
MaxTypeLen == 3

\* the role of an element that has none (element.role is undefined)
NoRole == ""
\* metadata.dominantType: null
NoType == ""

Roles == {"background", "content", "gallery", "icon"}

TypedElement(t, l, r, p) == [type |-> t, level |-> l, role |-> r, position |-> p]

\* a kind is the type of an element, its level (headings) and its role (images)
TypeKinds ==
    {<<"heading", l, NoRole>> : l \in 1..MaxLevel}
        \cup {<<t, NoLevel, NoRole>> : t \in {"paragraph", "list", "code", "divider"}}
        \cup {<<"image", NoLevel, r>> : r \in Roles \cup {NoRole}}

\* the sequence whose element at array index p has kind kinds[p + 1]
MkTypedSeq(kinds) ==
    [k \in 1..Len(kinds) |-> TypedElement(kinds[k][1], kinds[k][2], kinds[k][3], k - 1)]

\* the sequences of at most n elements of these kinds
SequencesOf(kinds, n) == {MkTypedSeq(k) : k \in UNION {[1..m -> kinds] : m \in 0..n}}

\* the array indexes below pos that hold a heading, as sequence indexes
HeadingsBefore(seq, pos) == {k \in 1..pos : seq[k].type = "heading"}

\* getElementContext whose backward scan starts at the element itself
getElementContextInclusive(seq, pos) ==
    [position |-> pos,
     previousElement |-> IF pos > 0 THEN seq[pos] ELSE NULL,
     nextElement |-> IF pos < Len(seq) - 1 THEN seq[pos + 2] ELSE NULL,
     nearestHeading |->
         IF HeadingsBefore(seq, pos + 1) = {} THEN NULL
         ELSE seq[CHOOSE k \in HeadingsBefore(seq, pos + 1) :
                     \A m \in HeadingsBefore(seq, pos + 1) : m <= k]]

\* pos is the array index of the element; sequence[pos] is seq[pos + 1]
getElementContext(seq, pos) ==
    [position |-> pos,
     previousElement |-> IF pos > 0 THEN seq[pos] ELSE NULL,
     nextElement |-> IF pos < Len(seq) - 1 THEN seq[pos + 2] ELSE NULL,
     nearestHeading |->
         IF HeadingsBefore(seq, pos) = {} THEN NULL
         ELSE seq[CHOOSE k \in HeadingsBefore(seq, pos) :
                     \A m \in HeadingsBefore(seq, pos) : m <= k]]

\* { ...element, context }
WithContext(element, context) ==
    [type |-> element.type, level |-> element.level, role |-> element.role,
     position |-> element.position, context |-> context]

\* the initial value of "collections"
EmptyCollections(seq) ==
    [headings |-> <<>>,
     paragraphs |-> <<>>,
     images |-> [background |-> <<>>, content |-> <<>>, gallery |-> <<>>,
                 icons |-> <<>>],
     lists |-> <<>>,
     code |-> <<>>,
     dividers |-> <<>>,
     metadata |-> [totalElements |-> Len(seq), dominantType |-> NoType,
                   hasMedia |-> FALSE]]

\* the collection each case of the switch pushes to
BucketOf(t) ==
    CASE t = "heading" -> "headings"
      [] t = "paragraph" -> "paragraphs"
      [] t = "list" -> "lists"
      [] t = "code" -> "code"
      [] t = "divider" -> "dividers"

\* typeFrequency.get(t) once the forEach is over
Frequency(seq, t) == Cardinality({k \in 1..Len(seq) : seq[k].type = t})

\* the type the "Calculate dominant type" loop leaves: typeFrequency is
\* walked in insertion order and only a strictly greater frequency replaces
DominantType(seq) ==
    IF seq = <<>> THEN NoType
    ELSE seq[CHOOSE k \in 1..Len(seq) :
                /\ \A m \in 1..Len(seq) :
                       Frequency(seq, seq[m].type) <= Frequency(seq, seq[k].type)
                /\ \A m \in 1..(k - 1) :
                       Frequency(seq, seq[m].type) < Frequency(seq, seq[k].type)].type

InEach == tpc = "each" /\ index <= Len(typeSequence)

\* a callback with Object.assign(element, { context }) in place of the
\* copy { ...element, context }: the element of the sequence gets the context
IndexElementInPlace ==
    /\ InEach
    /\ typeSequence[index].type # "image"
    /\ collections' =
           [collections EXCEPT ![BucketOf(typeSequence[index].type)] =
               Append(@, WithContext(typeSequence[index],
                                     getElementContext(typeSequence, index - 1)))]
    /\ typeSequence' =
           [typeSequence EXCEPT ![index] =
               WithContext(typeSequence[index],
                           getElementContext(typeSequence, index - 1))]
    /\ index' = index + 1
    /\ UNCHANGED <<tpc, queried>>

\* a callback of the forEach on an element that is not an image
IndexElement ==
    /\ InEach
    /\ typeSequence[index].type # "image"
    /\ collections' =
           [collections EXCEPT ![BucketOf(typeSequence[index].type)] =
               Append(@, WithContext(typeSequence[index],
                                     getElementContext(typeSequence, index - 1)))]
    /\ index' = index + 1
    /\ UNCHANGED <<typeSequence, tpc, queried>>

\* a callback of the forEach on an image: collections.images[role] is
\* undefined for a role that names no bucket, and push on it throws
IndexImage ==
    /\ InEach
    /\ typeSequence[index].type = "image"
    /\ LET element == typeSequence[index]
           role == IF element.role = NoRole THEN "content" ELSE element.role
       IN IF role \in DOMAIN collections.images
          THEN /\ collections' =
                      [collections EXCEPT
                          !.images[role] =
                              Append(@, WithContext(element,
                                         getElementContext(typeSequence, index - 1))),
                          !.metadata.hasMedia = TRUE]
               /\ index' = index + 1
               /\ UNCHANGED tpc
          ELSE /\ tpc' = "thrown"
               /\ UNCHANGED <<collections, index>>
    /\ UNCHANGED <<typeSequence, queried>>

\* the forEach is over: the dominant type is set and collections returned
ReturnCollections ==
    /\ tpc = "each"
    /\ index > Len(typeSequence)
    /\ collections' =
           [collections EXCEPT !.metadata.dominantType = DominantType(typeSequence)]
    /\ tpc' = "done"
    /\ UNCHANGED <<typeSequence, index, queried>>

\* the heading filters of the queries: headings of one level, or the heading
\* at one position
HeadingFilters ==
    {[by |-> "level", value |-> l] : l \in 1..MaxLevel}
        \cup {[by |-> "position", value |-> p] : p \in 0..(MaxTypeLen - 1)}

headingFilter(f, heading) ==
    IF f.by = "level" THEN heading.level = f.value ELSE heading.position = f.value

ValidTypes == <<"paragraphs", "images", "lists", "code">>

\* the members of collections that are arrays; images is an object
ArrayMembers == {"headings", "paragraphs", "lists", "code", "dividers"}

getElementsByHeadingContext(c, f) ==
    LET Test(el) ==
            /\ el.context.nearestHeading # NULL
            /\ headingFilter(f, el.context.nearestHeading)
    IN Concat([k \in 1..Len(ValidTypes) |->
                  IF ValidTypes[k] \in ArrayMembers
                  THEN SelectSeq(c[ValidTypes[k]], Test)
                  ELSE <<>>])

\* one query on the returned collections; a query changes nothing a later
\* query reads, so one query per run reaches every result
Query ==
    /\ tpc = "done"
    /\ queried = NULL
    /\ \E f \in HeadingFilters :
           queried' = [filter |-> f,
                       elements |-> getElementsByHeadingContext(collections, f)]
    /\ UNCHANGED <<typeSequence, index, collections, tpc>>

InitTypes ==
    /\ typeSequence \in SequencesOf(TypeKinds, MaxTypeLen)
    /\ index = 1
    /\ collections = EmptyCollections(typeSequence)
    /\ tpc = "each"
    /\ queried = NULL
    /\ GroupIdle
    /\ SiteIdle
    /\ SeqIdle
    /\ ValIdle

NextTypes ==
    \/ IndexElement /\ UNCHANGED <<groupVars, seqVars, valVars, siteVars>>
    \/ IndexImage /\ UNCHANGED <<groupVars, seqVars, valVars, siteVars>>
    \/ ReturnCollections /\ UNCHANGED <<groupVars, seqVars, valVars, siteVars>>
    \/ Query /\ UNCHANGED <<groupVars, seqVars, valVars, siteVars>>

SpecTypes == InitTypes /\ [][NextTypes]_vars

----------------------------------------------------------------------------
(* The second copy of the Type Indexer (the source that differs from        *)
(* src/parser/types.js in the image case and in the heading-context query)  *)

\* the image case creates the role's array when collections.images has none
IndexImageP5 ==
    /\ InEach
    /\ typeSequence[index].type = "image"
    /\ LET element == typeSequence[index]
           role == IF element.role = NoRole THEN "content" ELSE element.role
           entry == WithContext(element, getElementContext(typeSequence, index - 1))
       IN collections' =
              [collections EXCEPT
                  !.images = [r \in DOMAIN collections.images \cup {role} |->
                                 IF r = role
                                 THEN IF r \in DOMAIN collections.images
                                      THEN Append(collections.images[r], entry)
                                      ELSE <<entry>>
                                 ELSE collections.images[r]],
                  !.metadata.hasMedia = TRUE]
    /\ index' = index + 1
    /\ UNCHANGED <<typeSequence, tpc, queried>>

\* the members of a set of strings, one after the other
RECURSIVE SeqOfSet(_)
SeqOfSet(S) ==
    IF S = {} THEN <<>>
    ELSE LET x == CHOOSE y \in S : TRUE IN <<x>> \o SeqOfSet(S \ {x})

\* Object.values(images).flat()
AllImageEntries(c) ==
    Concat([k \in 1..Cardinality(DOMAIN c.images) |->
               c.images[SeqOfSet(DOMAIN c.images)[k]]])

getElementsByHeadingContextP5(c, f) ==
    LET Test(el) ==
            /\ el.context.nearestHeading # NULL
            /\ headingFilter(f, el.context.nearestHeading)
    IN SelectSeq(c.paragraphs \o AllImageEntries(c) \o c.lists \o c.code, Test)

QueryP5 ==
    /\ tpc = "done"
    /\ queried = NULL
    /\ \E f \in HeadingFilters :
           queried' = [filter |-> f,
                       elements |-> getElementsByHeadingContextP5(collections, f)]
    /\ UNCHANGED <<typeSequence, index, collections, tpc>>

NextTypesP5 ==
    \/ IndexElement /\ UNCHANGED <<groupVars, seqVars, valVars, siteVars>>
    \/ IndexImageP5 /\ UNCHANGED <<groupVars, seqVars, valVars, siteVars>>
    \/ ReturnCollections /\ UNCHANGED <<groupVars, seqVars, valVars, siteVars>>
    \/ QueryP5 /\ UNCHANGED <<groupVars, seqVars, valVars, siteVars>>

SpecTypesP5 == InitTypes /\ [][NextTypesP5]_vars

----------------------------------------------------------------------------
(* Claims about the Type Indexer *)

TypesEnded == tpc \in {"done", "thrown"}

\* every entry of the index: the array members and every image role bucket
Entries(c) ==
    c.headings \o c.paragraphs \o AllImageEntries(c) \o c.lists \o c.code
        \o c.dividers

\* an entry without the context record processByType added
WithoutContext(e) == TypedElement(e.type, e.level, e.role, e.position)

RECURSIVE InsertByPosition(_, _)
InsertByPosition(sorted, e) ==
    IF sorted = <<>> THEN <<e>>
    ELSE IF e.position < Head(sorted).position THEN <<e>> \o sorted
    ELSE <<Head(sorted)>> \o InsertByPosition(Tail(sorted), e)

RECURSIVE SortByPosition(_)
SortByPosition(entries) ==
    IF entries = <<>> THEN <<>>
    ELSE InsertByPosition(SortByPosition(Tail(entries)), Head(entries))

\* how many entries of the index are made from the element at array index p
EntriesFor(c, p) ==
    Cardinality({k \in 1..Len(Entries(c)) : Entries(c)[k].context.position = p})

\* C13: processByType returns an index in which every element of the
\* sequence is in exactly one bucket, and the buckets concatenated and sorted
\* by position are the sequence again, context aside
C13_RoundTrip ==
    TypesEnded =>
        /\ tpc = "done"
        /\ \A k \in 1..Len(typeSequence) : EntriesFor(collections, k - 1) = 1
        /\ LET sorted == SortByPosition(Entries(collections))
           IN [k \in 1..Len(sorted) |-> WithoutContext(sorted[k])] = typeSequence

FourBuckets == {"background", "content", "gallery", "icons"}

\* the bucket of the four an image of this role belongs to
RoleBucket(role) ==
    CASE role = "background" -> "background"
      [] role = "gallery" -> "gallery"
      [] role = "icon" -> "icons"
      [] OTHER -> "content"

InBucket(c, b, p) ==
    Cardinality({k \in 1..Len(c.images[b]) : c.images[b][k].context.position = p})

\* C14: processByType does not fail, keeps exactly the four image buckets,
\* and every image is once in the bucket of its role (icon: icons) and in no
\* other
C14_ImageBuckets ==
    TypesEnded =>
        /\ tpc = "done"
        /\ DOMAIN collections.images = FourBuckets
        /\ \A k \in 1..Len(typeSequence) :
               typeSequence[k].type = "image" =>
                   \A b \in FourBuckets :
                       InBucket(collections, b, k - 1) =
                           IF b = RoleBucket(typeSequence[k].role) THEN 1 ELSE 0

\* the heading a backward look from array index p meets first, or NULL: the
\* heading at an index below p with no heading between it and p
IsNearestHeading(seq, p, h) ==
    IF \A k \in 1..p : seq[k].type # "heading" THEN h = NULL
    ELSE \E j \in 1..p :
             /\ seq[j].type = "heading"
             /\ h = seq[j]
             /\ \A k \in (j + 1)..p : seq[k].type # "heading"

\* C15: the entry of the element at index p has the element at p - 1 as
\* previousElement (none for p = 0), the element at p + 1 as nextElement
\* (none for the last) and the last heading before p as nearestHeading
C15_Context ==
    collections # NULL =>
        \A k \in 1..Len(Entries(collections)) :
            LET e == Entries(collections)[k]
                p == e.context.position
            IN /\ WithoutContext(e) = typeSequence[p + 1]
               /\ e.context.previousElement =
                      IF p = 0 THEN NULL ELSE typeSequence[p]
               /\ e.context.nextElement =
                      IF p = Len(typeSequence) - 1 THEN NULL ELSE typeSequence[p + 2]
               /\ IsNearestHeading(typeSequence, p, e.context.nearestHeading)

\* an index was returned in which the last element follows a divider and has
\* the heading before the divider as its nearest heading, and a heading has
\* no nearest heading
C15_Witness ==
    /\ tpc = "done"
    /\ \E k \in 1..Len(Entries(collections)) :
           LET e == Entries(collections)[k]
           IN /\ e.context.nextElement = NULL
              /\ e.context.previousElement # NULL
              /\ e.context.previousElement.type = "divider"
              /\ e.context.nearestHeading # NULL
    /\ \E k \in 1..Len(collections.headings) :
           collections.headings[k].context.nearestHeading = NULL

Range(s) == {s[k] : k \in 1..Len(s)}

\* the indexed paragraphs, images of every role, lists and code elements
Queryable(c) == Range(c.paragraphs \o AllImageEntries(c) \o c.lists \o c.code)

\* C16: getElementsByHeadingContext returns exactly the indexed paragraphs,
\* images, lists and code elements whose nearest heading exists and
\* satisfies the filter
C16_HeadingContext ==
    queried # NULL =>
        Range(queried.elements) =
            {e \in Queryable(collections) :
                /\ e.context.nearestHeading # NULL
                /\ headingFilter(queried.filter, e.context.nearestHeading)}

----------------------------------------------------------------------------
(* processGroups and processByType as functions of the sequence: what      *)
(* src/index.js hands on to the validator as content.groups and            *)
(* content.byType                                                           *)

\* the structure processGroups returns once its loop has reached sequence
\* index k with this current group and this structure
RECURSIVE GroupsFrom(_, _, _, _)
GroupsFrom(seq, k, group, struct) ==
    IF k > Len(seq) THEN CloseCurrent(group, struct)
    ELSE IF seq[k].type = "divider"
    THEN GroupsFrom(seq, k + 1, createNewGroup(NULL), CloseCurrent(group, struct))
    ELSE IF seq[k].type = "heading"
    THEN IF shouldStartNewGroup(seq[k], group, seq, k - 1)
         THEN GroupsFrom(seq, k + 1, createNewGroup(seq[k]), CloseCurrent(group, struct))
         ELSE GroupsFrom(seq, k + 1, addHeadingToGroup(group, seq[k]), struct)
    ELSE LET g == IF group = NULL THEN createNewGroup(NULL) ELSE group
         IN GroupsFrom(seq, k + 1, [g EXCEPT !.content = Append(g.content, seq[k])],
                       struct)

processGroups(seq) == GroupsFrom(seq, 1, NULL, [main |-> NULL, items |-> <<>>])

\* the same for the first definition of processGroups
RECURSIVE GroupsFromV1(_, _, _, _)
GroupsFromV1(seq, k, group, struct) ==
    IF k > Len(seq) THEN SecondPassV1(CloseCurrentV1(group, struct))
    ELSE IF seq[k].type = "divider"
    THEN GroupsFromV1(seq, k + 1, createNewGroupV1, CloseCurrentV1(group, struct))
    ELSE IF seq[k].type = "heading"
    THEN IF shouldStartNewGroupV1(seq[k], group, seq, k - 1)
         THEN GroupsFromV1(seq, k + 1, addHeadingToGroupV1(createNewGroupV1, seq[k]),
                           CloseCurrentV1(group, struct))
         ELSE GroupsFromV1(seq, k + 1, addHeadingToGroupV1(group, seq[k]), struct)
    ELSE LET g == IF group = NULL THEN createNewGroupV1 ELSE group
         IN GroupsFromV1(seq, k + 1,
                         [g EXCEPT !.content = Append(g.content, seq[k])], struct)

processGroupsV1(seq) == GroupsFromV1(seq, 1, NULL, [main |-> NULL, items |-> <<>>])

\* the collections processByType returns for a sequence without an image
\* whose role names no bucket
RECURSIVE CollectionsFrom(_, _, _)
CollectionsFrom(seq, k, c) ==
    IF k > Len(seq) THEN [c EXCEPT !.metadata.dominantType = DominantType(seq)]
    ELSE LET entry == WithContext(seq[k], getElementContext(seq, k - 1))
         IN IF seq[k].type # "image"
            THEN CollectionsFrom(seq, k + 1,
                     [c EXCEPT ![BucketOf(seq[k].type)] = Append(@, entry)])
            ELSE CollectionsFrom(seq, k + 1,
                     [c EXCEPT
                         !.images[IF seq[k].role = NoRole THEN "content"
                                  ELSE seq[k].role] = Append(@, entry),
                         !.metadata.hasMedia = TRUE])

processByType(seq) == CollectionsFrom(seq, 1, EmptyCollections(seq))

----------------------------------------------------------------------------
(* The Validator: validateContent of src/validation/index.js, one check at *)
(* a time                                                                   *)

\* longest sequence of the inputs of validateContent
MaxValLen == 3

\* JavaScript values of a field the validator only tests: what it is, and
\* whether it is truthy
Value(is, truthy) == [is |-> is, truthy |-> truthy]
Undefined == Value("undefined", FALSE)
EmptyString == Value("string", FALSE)
String == Value("string", TRUE)
Number == Value("number", TRUE)
Object == Value("object", TRUE)
Array == Value("array", TRUE)

\* typeof v
TypeOf(v) == IF v.is = "array" THEN "object" ELSE v.is

\* content.content.sequence: an array with its elements, or another value
ArrayOf(elements) == [is |-> "array", truthy |-> TRUE, elements |-> elements]
NotASequence == {[is |-> v.is, truthy |-> v.truthy, elements |-> <<>>] :
                    v \in {Undefined, Object}}

Max(a, b) == IF a > b THEN a ELSE b
Min(a, b) == IF a < b THEN a ELSE b

\* the kinds of the elements of the validator's sequences
ValKinds ==
    {<<"heading", l, NoRole>> : l \in 1..MaxLevel}
        \cup {<<t, NoLevel, NoRole>> : t \in {"paragraph", "divider"}}
        \cup {<<"image", NoLevel, r>> : r \in {"background", "content"}}

Section(component, props, seqValue, groups, byType) ==
    [component |-> component, props |-> props,
     content |-> [sequence |-> seqValue, groups |-> groups, byType |-> byType]]

\* sections as src/index.js builds them, with a component and props, for
\* every sequence of at most n elements; the same with the sequence missing
\* or not an array
StructureInputs(n) ==
    {Section(String, Object, sq, g[2], processByType(g[1])) :
        sq \in NotASequence,
        g \in {<<q, processGroups(q)>> : q \in SequencesOf(ValKinds, n)}}
    \cup {Section(String, Object, ArrayOf(q), processGroups(q), processByType(q)) :
             q \in SequencesOf(ValKinds, n)}
    \cup {Section(String, Object, ArrayOf(q), processGroupsV1(q), processByType(q)) :
             q \in SequencesOf(ValKinds, n)}

\* sections of one element at most with every frontmatter
FrontmatterInputs(n) ==
    {Section(c, pr, ArrayOf(q), processGroups(q), processByType(q)) :
        c \in {Undefined, EmptyString, String},
        pr \in {Undefined, EmptyString, String, Number, Object, Array},
        q \in SequencesOf(ValKinds, Min(n, 1))}

ValInputs(n) == StructureInputs(n) \cup FrontmatterInputs(n)

EmptyResults == [errors |-> <<>>, warnings |-> <<>>, suggestions |-> <<>>]

Message(t, location) == [type |-> t, location |-> location]

Push(results, list, message) == [results EXCEPT ![list] = Append(@, message)]

validateFrontmatter(c, results) ==
    LET r1 == IF ~c.component.truthy
              THEN Push(results, "errors", Message("missing_component", NULL))
              ELSE results
    IN IF c.props.truthy /\ TypeOf(c.props) # "object"
       THEN Push(r1, "errors", Message("invalid_props", NULL))
       ELSE r1

\* the forEach of validateHeadingHierarchy from heading k on
RECURSIVE HierarchyFrom(_, _, _, _)
HierarchyFrom(headings, k, previousLevel, results) ==
    IF k > Len(headings) THEN results
    ELSE HierarchyFrom(headings, k + 1, headings[k].level,
             IF headings[k].level > previousLevel + 1
             THEN Push(results, "warnings",
                       Message("skipped_heading_level", headings[k]))
             ELSE results)

validateHeadingHierarchy(headings, results) ==
    IF Len(headings) = 0
    THEN Push(results, "warnings", Message("no_headings", NULL))
    ELSE HierarchyFrom(headings, 1, 0, results)

\* Object.values(group.headings).some((h) => h)
SomeHeading(group) ==
    \/ group.headings.eyebrow # NULL
    \/ group.headings.title # NULL
    \/ group.headings.subtitle # NULL

\* the "empty groups" forEach from item k on
RECURSIVE EmptyGroupsFrom(_, _, _)
EmptyGroupsFrom(items, k, results) ==
    IF k > Len(items) THEN results
    ELSE EmptyGroupsFrom(items, k + 1,
             IF Len(items[k].content) = 0 /\ ~SomeHeading(items[k])
             THEN Push(results, "warnings", Message("empty_group", items[k]))
             ELSE results)

ContentPositions(group) == {group.content[k].position : k \in 1..Len(group.content)}

groupedPositions(groups) ==
    (IF groups.main # NULL THEN ContentPositions(groups.main) ELSE {})
        \cup UNION {ContentPositions(groups.items[k]) : k \in 1..Len(groups.items)}

\* the last forEach of validateOrphanedContent from sequence index k on
RECURSIVE OrphansFrom(_, _, _, _)
OrphansFrom(seq, k, grouped, results) ==
    IF k > Len(seq) THEN results
    ELSE OrphansFrom(seq, k + 1, grouped,
             IF (k - 1) \notin grouped /\ seq[k].type # "divider"
             THEN Push(results, "warnings", Message("orphaned_content", seq[k]))
             ELSE results)

\* sequence.forEach throws when sequence is undefined or has no forEach
validateOrphanedContent(c, results) ==
    IF c.sequence.is # "array" THEN Thrown
    ELSE OrphansFrom(c.sequence.elements, 1, groupedPositions(c.groups), results)

validateStructure(c, results) ==
    IF ~c.sequence.truthy \/ c.sequence.is # "array"
    THEN Push(results, "errors", Message("invalid_sequence", NULL))
    ELSE validateOrphanedContent(c,
             EmptyGroupsFrom(c.groups.items, 1,
                 validateHeadingHierarchy(c.byType.headings, results)))

\* the array indexes the loop of findNearbyHeading visits, as sequence
\* indexes: from max(0, pos - 2) up to, not including, min(length, pos + 2)
SearchRange(pos, len) == (Max(0, pos - 2) + 1)..Min(len, pos + 2)

\* findNearbyHeading on an array of elements
findNearbyHeading(element, seq) ==
    LET found == {k \in SearchRange(element.position, Len(seq)) :
                     seq[k].type = "heading"}
    IN IF found = {} THEN NULL
       ELSE seq[CHOOSE k \in found : \A m \in found : k <= m]

\* the forEach over byType.images.background from image k on
RECURSIVE BackgroundsFrom(_, _, _, _)
BackgroundsFrom(images, k, seq, results) ==
    IF k > Len(images) THEN results
    ELSE BackgroundsFrom(images, k + 1, seq,
             IF findNearbyHeading(images[k], seq) = NULL
             THEN Push(results, "suggestions",
                       Message("orphaned_background", images[k]))
             ELSE results)

\* the forEach over byType.images.background.  With sequence undefined,
\* sequence.length throws for the first image; with an object that has no
\* length the loop of findNearbyHeading runs zero times and returns null
CheckBackgrounds(c, results) ==
    IF c.sequence.is = "array"
    THEN BackgroundsFrom(c.byType.images.background, 1, c.sequence.elements, results)
    ELSE IF Len(c.byType.images.background) = 0 THEN results
    ELSE IF c.sequence.is = "undefined" THEN Thrown
    ELSE BackgroundsFrom(c.byType.images.background, 1, <<>>, results)

validateContentGroups(c, results) ==
    validateOrphanedContent(c,
        IF c.groups.main # NULL
        THEN IF c.groups.main.headings.title = NULL
             THEN Push(results, "warnings", Message("no_main_title", NULL))
             ELSE results
        ELSE Push(results, "suggestions", Message("no_main_group", NULL)))

validateRelationships(c, results) ==
    IF CheckBackgrounds(c, results) = Thrown THEN Thrown
    ELSE validateContentGroups(c, CheckBackgrounds(c, results))

ValidateFrontmatter ==
    /\ vpc = "frontmatter"
    /\ messages' = validateFrontmatter(vcontent, messages)
    /\ vpc' = "structure"
    /\ UNCHANGED vcontent

ValidateStructure ==
    /\ vpc = "structure"
    /\ messages' = validateStructure(vcontent.content, messages)
    /\ vpc' = "relationships"
    /\ UNCHANGED vcontent

\* the last check: validateContent returns the results, or the exception of
\* the check leaves validateContent
ValidateRelationships ==
    /\ vpc = "relationships"
    /\ LET r == validateRelationships(vcontent.content, messages)
       IN IF r = Thrown
          THEN vpc' = "thrown" /\ UNCHANGED messages
          ELSE vpc' = "done" /\ messages' = r
    /\ UNCHANGED vcontent

InitVal ==
    /\ vcontent \in ValInputs(MaxValLen)
    /\ messages = EmptyResults
    /\ vpc = "frontmatter"
    /\ GroupIdle
    /\ SiteIdle
    /\ SeqIdle
    /\ TypesIdle

NextVal ==
    \/ ValidateFrontmatter /\ UNCHANGED <<groupVars, seqVars, typeVars, siteVars>>
    \/ ValidateStructure /\ UNCHANGED <<groupVars, seqVars, typeVars, siteVars>>
    \/ ValidateRelationships /\ UNCHANGED <<groupVars, seqVars, typeVars, siteVars>>

SpecVal == InitVal /\ [][NextVal]_vars

----------------------------------------------------------------------------
(* Claims about the Validator *)

ValDone == vpc = "done"
ValEnded == vpc \in {"done", "thrown"}

\* the elements of the validated sequence
ValSeq == vcontent.content.sequence.elements

\* how many messages of a list have this type and a location at this position
CountAt(list, t, p) ==
    Cardinality({k \in 1..Len(list) :
                    /\ list[k].type = t
                    /\ list[k].location.position = p})

CountOf(list, t) == Cardinality({k \in 1..Len(list) : list[k].type = t})

IsHeading(e) == e.type = "heading"

\* the headings of the sequence, in document order
HeadingsOf(seq) == SelectSeq(seq, IsHeading)

\* the headings that follow a heading more than one level above them
SkipsOf(hs) == {k \in 2..Len(hs) : hs[k].level > hs[k - 1].level + 1}

\* C17: validateContent emits one skipped_heading_level warning for each
\* heading whose level exceeds the level of the heading before it by more
\* than one, and no other skipped_heading_level warning
C17_SkippedLevels ==
    ValDone =>
        LET hs == HeadingsOf(ValSeq)
        IN /\ \A k \in 1..Len(hs) :
                  CountAt(messages.warnings, "skipped_heading_level", hs[k].position)
                      = IF k \in SkipsOf(hs) THEN 1 ELSE 0
           /\ CountOf(messages.warnings, "skipped_heading_level")
                  = Cardinality(SkipsOf(hs))

\* the groups of a structure
ValGroups(groups) ==
    (IF groups.main # NULL THEN {groups.main} ELSE {})
        \cup {groups.items[k] : k \in 1..Len(groups.items)}

\* the element is in the content or in a heading slot of a group
HeldBy(g, e) ==
    \/ \E k \in 1..Len(g.content) : g.content[k] = e
    \/ g.headings.eyebrow = e
    \/ g.headings.title = e
    \/ g.headings.subtitle = e

\* C18: an orphaned_content warning is about an element that is not a
\* divider and that no group holds, in its content or in a heading slot
C18_OrphanedOnlyIfUnplaced ==
    ValDone =>
        \A k \in 1..Len(messages.warnings) :
            messages.warnings[k].type = "orphaned_content" =>
                /\ messages.warnings[k].location.type # "divider"
                /\ \A g \in ValGroups(vcontent.content.groups) :
                       ~HeldBy(g, messages.warnings[k].location)

\* C19: with a sequence that is missing or not a list, validateContent
\* returns a result with one invalid_sequence error and raises no exception
C19_InvalidSequenceReturns ==
    (ValEnded /\ vcontent.content.sequence.is # "array") =>
        /\ vpc = "done"
        /\ CountOf(messages.errors, "invalid_sequence") = 1

\* the array indexes from p - 2 to p + 2 inside the sequence, as sequence
\* indexes
Within2(p, len) == {k \in 1..len : p - 2 <= k - 1 /\ k - 1 <= p + 2}

\* C20: a background image at index p gets an orphaned_background
\* suggestion exactly when no heading is at an index from p - 2 to p + 2
C20_OrphanedBackground ==
    ValDone =>
        \A k \in 1..Len(ValSeq) :
            (ValSeq[k].type = "image" /\ ValSeq[k].role = "background") =>
                ((CountAt(messages.suggestions, "orphaned_background", k - 1) > 0)
                    <=> \A m \in Within2(k - 1, Len(ValSeq)) :
                            ValSeq[m].type # "heading")

\* the component name is absent: no field, or an empty name
ComponentAbsent(c) == c.component.is = "undefined" \/ c.component = EmptyString

\* props is there and is not a key/value mapping
PropsNotMapping(c) == c.props.is \notin {"undefined", "object"}

\* C21: the result has a missing_component error exactly when the component
\* name is absent and an invalid_props error exactly when props is present
\* and is not a key/value mapping
C21_Frontmatter ==
    ValDone =>
        /\ CountOf(messages.errors, "missing_component")
               = IF ComponentAbsent(vcontent) THEN 1 ELSE 0
        /\ CountOf(messages.errors, "invalid_props")
               = IF PropsNotMapping(vcontent) THEN 1 ELSE 0

----------------------------------------------------------------------------
(* The three consumers of a sequence side by side: a behaviour runs        *)
(* processGroups, or processByType and a query, or validateContent         *)

\* longest sequence given to processByType and validateContent here
MaxFrameLen == 2

InitFrame ==
    \/ Init
    \/ /\ typeSequence \in SequencesOf(TypeKinds, MaxFrameLen)
       /\ index = 1
       /\ collections = EmptyCollections(typeSequence)
       /\ tpc = "each"
       /\ queried = NULL
       /\ GroupIdle
       /\ SiteIdle
       /\ SeqIdle
       /\ ValIdle
    \/ /\ vcontent \in ValInputs(MaxFrameLen)
       /\ messages = EmptyResults
       /\ vpc = "frontmatter"
       /\ GroupIdle
       /\ SiteIdle
       /\ SeqIdle
       /\ TypesIdle

NextFrame == Next \/ NextTypes \/ NextVal

SpecFrame == InitFrame /\ [][NextFrame]_vars

\* C22: no step of processGroups, of processByType, of a query or of
\* validateContent changes the sequence it was given, and no step of
\* validateContent changes the groups or the byType index of its argument
C22_InputsUnchanged ==
    [][/\ sequence' = sequence
       /\ typeSequence' = typeSequence
       /\ vcontent' = vcontent]_vars

\* a query has returned elements of a sequence that processByType indexed
C22_Witness ==
    /\ tpc = "done"
    /\ queried # NULL
    /\ Len(queried.elements) > 0
    /\ Len(typeSequence) = MaxFrameLen

\* the distinct element types in the content of a group
DistinctTypes(g) == {t \in {"paragraph", "image", "heading", "divider"} :
                        \E k \in 1..Len(g.content) : g.content[k].type = t}

NewDivider == Other("divider", 0 - 1)

\* the elements of the groups, each group's elements in original order, the
\* groups in the order they were closed, a divider between consecutive groups
RECURSIVE Flatten(_)
Flatten(groups) ==
    IF groups = <<>> THEN <<>>
    ELSE IF Len(groups) = 1 THEN SortByPosition(Placed(groups[1]))
    ELSE SortByPosition(Placed(groups[1])) \o <<NewDivider>> \o Flatten(Tail(groups))

\* the same elements in the same heading slots and the same content
SameGroup(g, h) ==
    /\ g.headings.eyebrow = h.headings.eyebrow
    /\ g.headings.title = h.headings.title
    /\ g.headings.subtitle = h.headings.subtitle
    /\ g.content = h.content

\* the same main/items split and the same groups
Equivalent(s, t) ==
    /\ (s.main = NULL) <=> (t.main = NULL)
    /\ s.main # NULL /\ t.main # NULL => SameGroup(s.main, t.main)
    /\ Len(s.items) = Len(t.items)
    /\ \A k \in 1..Len(s.items) :
           k <= Len(t.items) => SameGroup(s.items[k], t.items[k])

\* C23: processGroups on the flattened structure it returned, dividers put
\* back between the groups, returns an equivalent structure
C23_Idempotent ==
    Done => Equivalent(processGroups(Flatten(finalized)), structure)

SeqEnded == spc \in {"done", "thrown"}

\* a heading, paragraph or list node without its children array
LacksChildren(node) ==
    node.type \in {"heading", "paragraph", "list"} /\ ~node.hasChildren

\* C25: processSequence on a tree with a heading, paragraph or list node
\* that lacks its children ends with an exception, and no element was
\* emitted for such a node
C25_MalformedFailsFast ==
    /\ (SeqEnded /\ \E k \in 1..Len(PreOrder(ast)) : LacksChildren(PreOrder(ast)[k]))
           => spc = "thrown"
    /\ \A k \in 1..Len(emitted) : ~LacksChildren(NodeAt(emitted[k].position))

----------------------------------------------------------------------------
(* The build command of the CLI: buildContent, stepped one page at a time  *)
(* (specification SpecBuild)                                               *)

\* most section files of one page
MaxSections == 2

\* a section file whose parseSection returns, by the numbers of errors,
\* warnings and suggestions validateContent returns for it
Parsed(errors, warnings, suggestions) ==
    [parses |-> TRUE, errors |-> errors, warnings |-> warnings,
     suggestions |-> suggestions]

\* a section file whose parseSection throws: processByType on a sequence
\* with an image of a role it has no bucket for (the thrown of IndexImage)
Unparsed ==
    [parses |-> FALSE, errors |-> 0, warnings |-> 0, suggestions |-> 0]

SectionFiles ==
    {Parsed(0, 0, 0), Parsed(0, 0, 1), Parsed(0, 1, 0), Parsed(1, 0, 0),
     Unparsed}

\* the source directories of at most two pages of at most n section files
SourceDirs(n) ==
    LET Page == UNION {[1..m -> SectionFiles] : m \in 0..n}
    IN UNION {[1..m -> Page] : m \in 0..2}

\* the file content.json once written, by the content it holds
File(content) == [type |-> "file", content |-> content]

\* the names `${pageName}/${section.id}` of the sections of page p
SectionNames(p) == {<<p, k>> : k \in 1..Len(pages[p])}

\* the condition under which a section is added to hasErrors
failsValidation(section) ==
    section.errors > 0 \/ (options.strict /\ section.warnings > 0)

\* one turn of the loop over pages: the sections are parsed, and with
\* --validate each is validated and reported
ProcessPage ==
    /\ bpc = "pages"
    /\ pageNo <= Len(pages)
    /\ \A k \in 1..Len(pages[pageNo]) : pages[pageNo][k].parses
    /\ IF options.validate
       THEN /\ hasErrors' = hasErrors \cup
                   {n \in SectionNames(pageNo) :
                       failsValidation(pages[pageNo][n[2]])}
            /\ reported' = reported \cup SectionNames(pageNo)
       ELSE UNCHANGED <<hasErrors, reported>>
    /\ pageNo' = pageNo + 1
    /\ UNCHANGED <<options, pages, contentJson, exitCode, bpc, source, rebuilds>>

\* parseSections rejects: the exception leaves buildContent and the catch
\* of the build command exits
ParseThrows ==
    /\ bpc = "pages"
    /\ pageNo <= Len(pages)
    /\ \E k \in 1..Len(pages[pageNo]) : ~pages[pageNo][k].parses
    /\ exitCode' = "failed"
    /\ bpc' = "exited"
    /\ UNCHANGED <<options, pages, pageNo, hasErrors, reported, contentJson,
                   source, rebuilds>>

\* after the loop: fs.writeFile of content.json
WriteOutput ==
    /\ bpc = "pages"
    /\ pageNo > Len(pages)
    /\ contentJson' = File(pages)
    /\ bpc' = "written"
    /\ UNCHANGED <<options, pages, pageNo, hasErrors, reported, exitCode,
                   source, rebuilds>>

\* process.exit(1) when hasErrors is not empty
ExitWithError ==
    /\ bpc = "written"
    /\ hasErrors # {}
    /\ exitCode' = "failed"
    /\ bpc' = "exited"
    /\ UNCHANGED <<options, pages, pageNo, hasErrors, reported, contentJson,
                   source, rebuilds>>

\* buildContent returns and the build command reports success
BuildReturns ==
    /\ bpc = "written"
    /\ hasErrors = {}
    /\ exitCode' = "ok"
    /\ bpc' = "exited"
    /\ UNCHANGED <<options, pages, pageNo, hasErrors, reported, contentJson,
                   source, rebuilds>>

InitBuild ==
    /\ options \in [validate : BOOLEAN, strict : BOOLEAN]
    /\ pages \in SourceDirs(MaxSections)
    /\ pageNo = 1
    /\ hasErrors = {}
    /\ reported = {}
    /\ contentJson = NULL
    /\ exitCode = "running"
    /\ bpc = "pages"
    /\ source = 0
    /\ rebuilds = <<>>
    /\ PageIdle
    /\ GroupIdle
    /\ SeqIdle
    /\ TypesIdle
    /\ ValIdle

NextBuild ==
    \/ ProcessPage /\ UNCHANGED <<groupVars, seqVars, typeVars, valVars, pageVars>>
    \/ ParseThrows /\ UNCHANGED <<groupVars, seqVars, typeVars, valVars, pageVars>>
    \/ WriteOutput /\ UNCHANGED <<groupVars, seqVars, typeVars, valVars, pageVars>>
    \/ ExitWithError /\ UNCHANGED <<groupVars, seqVars, typeVars, valVars, pageVars>>
    \/ BuildReturns /\ UNCHANGED <<groupVars, seqVars, typeVars, valVars, pageVars>>

SpecBuild == InitBuild /\ [][NextBuild]_vars

\* every section of every page
AllSections == UNION {SectionNames(p) : p \in 1..Len(pages)}

\* some section has a validation error, or --strict is set and some section
\* has a warning
SomeSectionFails ==
    \E n \in AllSections :
        \/ pages[n[1]][n[2]].errors > 0
        \/ options.strict /\ pages[n[1]][n[2]].warnings > 0

\* C26: with --validate, once the build command has ended, it ended in
\* failure exactly when some section has a validation error or, with
\* --strict, a warning; every section of every page was validated and
\* reported; and content.json was written
C26_ValidateExit ==
    (bpc = "exited" /\ options.validate) =>
        /\ exitCode = "failed" <=> SomeSectionFails
        /\ reported = AllSections
        /\ contentJson = File(pages)

----------------------------------------------------------------------------
(* The page collector: processPage from its directory listing on, with     *)
(* buildSectionTree stepped one section at a time (specification SpecPage) *)

\* most content files of one page
MaxFiles == 3

\* the segments a numeric prefix is written with, and Number(segment) of each
SegmentTexts == {"0", "1"}

toNumber(text) == CASE text = "0" -> 0 [] text = "1" -> 1

\* the prefixes of at most three segments: prefix.split(".")
Prefixes == UNION {[1..d -> SegmentTexts] : d \in 1..3}

\* the file infos of a directory listing, in the order of the listing; the
\* field file stands for the title, extension and path of the file
FileInfosOf(listing) ==
    [k \in 1..Len(listing) |-> [prefix |-> listing[k], file |-> k]]

\* the listings of at most n content files
Listings(n) == UNION {[1..m -> Prefixes] : m \in 0..n}

\* aParts[i] || 0 (index from 1)
PartOr0(parts, k) == IF k <= Len(parts) THEN toNumber(parts[k]) ELSE 0

\* the comparator of fileInfos.sort returns a negative number
comparesBefore(a, b) ==
    \E k \in 1..Max(Len(a.prefix), Len(b.prefix)) :
        /\ PartOr0(a.prefix, k) < PartOr0(b.prefix, k)
        /\ \A j \in 1..(k - 1) : PartOr0(a.prefix, j) = PartOr0(b.prefix, j)

\* Array.prototype.sort is stable: an element goes before the first element
\* it compares before, and after every element it compares equal to
InsertStable(sorted, x) ==
    LET before == {k \in 1..Len(sorted) : comparesBefore(x, sorted[k])}
        at == IF before = {} THEN Len(sorted) + 1
              ELSE CHOOSE k \in before : \A j \in before : k <= j
    IN SubSeq(sorted, 1, at - 1) \o <<x>> \o SubSeq(sorted, at, Len(sorted))

RECURSIVE SortedFrom(_, _, _)
SortedFrom(infos, k, sorted) ==
    IF k > Len(infos) THEN sorted
    ELSE SortedFrom(infos, k + 1, InsertStable(sorted, infos[k]))

sortByNumericPrefix(infos) == SortedFrom(infos, 1, <<>>)

\* parts.pop(); parts.join(".")
parentPrefixOf(prefix) == SubSeq(prefix, 1, Len(prefix) - 1)

\* sectionByPrefix[prefix] = section
WithPrefix(byPrefix, prefix, section) ==
    [q \in DOMAIN byPrefix \cup {prefix} |->
        IF q = prefix THEN section ELSE byPrefix[q]]

\* fileInfos.sort(...); the sections of processedSections are the file
\* infos in that order
SortFileInfos ==
    /\ ppc = "listed"
    /\ fileInfos' = sortByNumericPrefix(fileInfos)
    /\ ppc' = "tree"
    /\ UNCHANGED <<sectionNo, sectionByPrefix, topSections, subsections>>

\* buildSectionTree: a section whose prefix has no "."
TopLevelSection ==
    /\ ppc = "tree"
    /\ sectionNo <= Len(fileInfos)
    /\ Len(fileInfos[sectionNo].prefix) = 1
    /\ subsections' = Append(subsections, <<>>)
    /\ topSections' = Append(topSections, sectionNo)
    /\ sectionByPrefix' =
           WithPrefix(sectionByPrefix, fileInfos[sectionNo].prefix, sectionNo)
    /\ sectionNo' = sectionNo + 1
    /\ UNCHANGED <<fileInfos, ppc>>

\* buildSectionTree: a nested section whose parent is in sectionByPrefix
NestedSection ==
    /\ ppc = "tree"
    /\ sectionNo <= Len(fileInfos)
    /\ Len(fileInfos[sectionNo].prefix) > 1
    /\ parentPrefixOf(fileInfos[sectionNo].prefix) \in DOMAIN sectionByPrefix
    /\ LET parent == sectionByPrefix[parentPrefixOf(fileInfos[sectionNo].prefix)]
       IN subsections' =
              [Append(subsections, <<>>) EXCEPT ![parent] = Append(@, sectionNo)]
    /\ sectionByPrefix' =
           WithPrefix(sectionByPrefix, fileInfos[sectionNo].prefix, sectionNo)
    /\ sectionNo' = sectionNo + 1
    /\ UNCHANGED <<fileInfos, topSections, ppc>>

\* buildSectionTree: throw new Error("Inconsistent numbering: ...")
InconsistentNumbering ==
    /\ ppc = "tree"
    /\ sectionNo <= Len(fileInfos)
    /\ Len(fileInfos[sectionNo].prefix) > 1
    /\ parentPrefixOf(fileInfos[sectionNo].prefix) \notin DOMAIN sectionByPrefix
    /\ ppc' = "thrown"
    /\ UNCHANGED <<fileInfos, sectionNo, sectionByPrefix, topSections, subsections>>

\* buildSectionTree: return topSections
ReturnTree ==
    /\ ppc = "tree"
    /\ sectionNo > Len(fileInfos)
    /\ ppc' = "done"
    /\ UNCHANGED <<fileInfos, sectionNo, sectionByPrefix, topSections, subsections>>

InitPage ==
    /\ fileInfos \in {FileInfosOf(l) : l \in Listings(MaxFiles)}
    /\ sectionNo = 1
    /\ sectionByPrefix = <<>>
    /\ topSections = <<>>
    /\ subsections = <<>>
    /\ ppc = "listed"
    /\ CliIdle
    /\ GroupIdle
    /\ SeqIdle
    /\ TypesIdle
    /\ ValIdle

NextPage ==
    \/ SortFileInfos /\ UNCHANGED <<groupVars, seqVars, typeVars, valVars, cliVars>>
    \/ TopLevelSection /\ UNCHANGED <<groupVars, seqVars, typeVars, valVars, cliVars>>
    \/ NestedSection /\ UNCHANGED <<groupVars, seqVars, typeVars, valVars, cliVars>>
    \/ InconsistentNumbering /\ UNCHANGED <<groupVars, seqVars, typeVars, valVars, cliVars>>
    \/ ReturnTree /\ UNCHANGED <<groupVars, seqVars, typeVars, valVars, cliVars>>

SpecPage == InitPage /\ [][NextPage]_vars

\* processPage has ended, with a tree or with the error
PageEnded == ppc \in {"done", "thrown"}

\* some section with a dotted prefix has no section whose prefix is that
\* prefix without its last segment
SomeParentMissing ==
    \E k \in 1..Len(fileInfos) :
        /\ Len(fileInfos[k].prefix) > 1
        /\ \A j \in 1..Len(fileInfos) :
               fileInfos[j].prefix # parentPrefixOf(fileInfos[k].prefix)

\* the number of places section k has in the tree
PlacesOf(k) ==
    Cardinality({j \in 1..Len(topSections) : topSections[j] = k})
    + Cardinality({<<q, j>> \in (1..Len(subsections)) \X (1..MaxFiles + 1) :
                      j <= Len(subsections[q]) /\ subsections[q][j] = k})

\* a list of sections is in ascending order of numeric prefix
Ascending(list) ==
    \A j \in 1..(Len(list) - 1) :
        ~comparesBefore(fileInfos[list[j + 1]], fileInfos[list[j]])

\* C27: processPage throws "Inconsistent numbering" exactly when some
\* dotted section lacks its parent; otherwise it returns a tree with every
\* section exactly once, undotted sections at the top, every dotted section
\* under a section with its parent prefix, each level in ascending order
C27_SectionTree ==
    PageEnded =>
        /\ ppc = "thrown" <=> SomeParentMissing
        /\ ppc = "done" =>
              /\ \A k \in 1..Len(fileInfos) : PlacesOf(k) = 1
              /\ \A j \in 1..Len(topSections) :
                     Len(fileInfos[topSections[j]].prefix) = 1
              /\ \A q \in 1..Len(subsections) :
                     \A j \in 1..Len(subsections[q]) :
                        parentPrefixOf(fileInfos[subsections[q][j]].prefix)
                            = fileInfos[q].prefix
              /\ Ascending(topSections)
              /\ \A q \in 1..Len(subsections) : Ascending(subsections[q])

----------------------------------------------------------------------------
(* Claims about the eyebrow exemption of processGroups *)

\* scanning forward from the element after array index idx over headings
\* and images alone, a heading of a strictly lower level is reached
ReachedOverSiblings(seq, idx, heading) ==
    \E k \in (idx + 2)..Len(seq) :
        /\ seq[k].type = "heading"
        /\ seq[k].level < heading.level
        /\ \A j \in (idx + 2)..(k - 1) : seq[j].type \in {"heading", "image"}

\* the loop is at a heading whose level is at most the level of the current
\* group, and that group has a title and body content
HeadingAtTitledGroup ==
    /\ InLoop
    /\ sequence[i].type = "heading"
    /\ currentGroup # NULL
    /\ currentGroup.headings.title # NULL
    /\ Len(currentGroup.content) > 0
    /\ currentGroup.metadata.level # NoLevel
    /\ sequence[i].level <= currentGroup.metadata.level

\* C28: a step of processGroups at such a heading, with no larger heading
\* reached over headings and images alone, starts a new group
C28_EyebrowExemption ==
    [][(HeadingAtTitledGroup
            /\ ~ReachedOverSiblings(sequence, i - 1, sequence[i]))
        => /\ currentGroup' = createNewGroup(sequence[i])
           /\ finalized' = Closed(currentGroup, finalized)]_vars

----------------------------------------------------------------------------
(* Claims about repeated diagnostics of validateContent *)

\* two messages of a list are the same diagnostic: the same type and the
\* same location.  The location of an empty_group message is the group, an
\* object of its own for every item, so two of them never share a location
SameDiagnostic(list, j, k) ==
    /\ j # k
    /\ list[j].type = list[k].type
    /\ list[j].type # "empty_group"
    /\ list[j].location = list[k].location

NoRepeats(list) ==
    \A j \in 1..Len(list) : \A k \in 1..Len(list) : ~SameDiagnostic(list, j, k)

\* C29: the result of validateContent holds no diagnostic twice
C29_NoDuplicateDiagnostics ==
    ValDone =>
        /\ NoRepeats(messages.errors)
        /\ NoRepeats(messages.warnings)
        /\ NoRepeats(messages.suggestions)

----------------------------------------------------------------------------
(* The watch command of the CLI: the handlers of the watcher, each a call  *)
(* of buildContent that runs from await to await among the others          *)
(* (specification SpecWatch).  The state of the source directory is a      *)
(* version, 0 at the initial build, and the build of version v is File(v). *)

\* most events of the watcher
MaxEvents == 3

\* a call of buildContent a handler made: before getPages ("read"), after
\* parseSections with the version it read ("write"), after fs.writeFile
\* ("complete")
Rebuild(event, at, snapshot) == [event |-> event, at |-> at, snapshot |-> snapshot]

\* the content of a rebuild that has read nothing yet
NothingRead == 0 - 1

\* a file is changed, added or removed, and the handler of the event logs
\* it and calls buildContent, which runs up to its first await
FileEvent ==
    /\ source < MaxEvents
    /\ \E event \in {"change", "add", "unlink"} :
           rebuilds' = Append(rebuilds, Rebuild(event, "read", NothingRead))
    /\ source' = source + 1
    /\ UNCHANGED <<options, pages, pageNo, hasErrors, reported, contentJson,
                   exitCode, bpc>>

\* a rebuild gets the pages and the sections of the source as it is now
ReadSource ==
    \E b \in 1..Len(rebuilds) :
        /\ rebuilds[b].at = "read"
        /\ rebuilds' = [rebuilds EXCEPT ![b] = Rebuild(@.event, "write", source)]
        /\ UNCHANGED <<options, pages, pageNo, hasErrors, reported, contentJson,
                       exitCode, bpc, source>>

\* a rebuild writes content.json with the content it read and returns
WriteContent ==
    \E b \in 1..Len(rebuilds) :
        /\ rebuilds[b].at = "write"
        /\ contentJson' = File(rebuilds[b].snapshot)
        /\ rebuilds' = [rebuilds EXCEPT ![b].at = "complete"]
        /\ UNCHANGED <<options, pages, pageNo, hasErrors, reported, exitCode,
                       bpc, source>>

\* the initial build is done and the watcher is set up
InitWatch ==
    /\ options = [validate |-> FALSE, strict |-> FALSE]
    /\ pages = <<>>
    /\ pageNo = 1
    /\ hasErrors = {}
    /\ reported = {}
    /\ contentJson = File(0)
    /\ exitCode = "running"
    /\ bpc = "watching"
    /\ source = 0
    /\ rebuilds = <<>>
    /\ PageIdle
    /\ GroupIdle
    /\ SeqIdle
    /\ TypesIdle
    /\ ValIdle

NextWatch ==
    \/ FileEvent /\ UNCHANGED <<groupVars, seqVars, typeVars, valVars, pageVars>>
    \/ ReadSource /\ UNCHANGED <<groupVars, seqVars, typeVars, valVars, pageVars>>
    \/ WriteContent /\ UNCHANGED <<groupVars, seqVars, typeVars, valVars, pageVars>>

SpecWatch == InitWatch /\ [][NextWatch]_vars

\* every rebuild the watcher started has finished
AllRebuildsComplete ==
    \A b \in 1..Len(rebuilds) : rebuilds[b].at = "complete"

\* C30: once every started rebuild has finished, content.json is the build
\* of the source directory as it is
C30_NeverStale ==
    AllRebuildsComplete => contentJson = File(source)
====
